---- MODULE Spec2Model ----
(***************************************************************************)
(* A model of battery_stats.cpp: the BatteryMonitor statistics engine, the *)
(* formatRelTime duration formatter, the clocks the engine reads, and the  *)
(* two listeners that main runs and that feed the engine.                  *)
(*                                                                         *)
(* Time is counted in milliseconds (the finest unit the engine converts    *)
(* to).  Energies are doubles in the source; here they are integers, so    *)
(* sums and differences are exact.  A quotient is kept as the pair of its  *)
(* numerator and denominator.  An optional value is a sequence of length   *)
(* 0 (absent) or 1 (present).                                              *)
(***************************************************************************)
EXTENDS Integers, Sequences, FiniteSets, TLC

VARIABLES
    energyEmpty,        \* std::optional<double>
    energyFull,         \* std::optional<double>
    firstReading,       \* std::optional<Reading>
    readings,           \* std::list<Reading>
    printSuspendStats,  \* bool
    enterSuspendTime,   \* std::optional<Time>
    totalSuspendEnergy, \* double
    now,                \* std::chrono::system_clock
    relNow,             \* std::chrono::steady_clock
    out,                \* the lines the most recent step wrote to std::cout
    call,               \* history: the operation of the most recent step
    admitted,           \* history: readings pushed to the window since the last reset
    lastPowerCall,      \* history: argument of the last Suspended/Awake setPowerState
    resumedSince,       \* history: a Suspended..Awake pair ended since the last admitted reading
    limitCalls,         \* history: arguments of the most recent setBatteryLimits
    ticks,              \* history: number of clock advances
    duration,           \* formatRelTime's argument
    output,             \* formatRelTime's result
    rateArgs,           \* printRate's arguments, and the limits it reads
    rateOut,            \* what printRate wrote
    batteryPc,          \* powerEventMonitor's position
    devices,            \* the enumerated devices' types not yet inspected
    batteryPath,        \* std::optional<object_path>: the battery found so far
    props,              \* the properties processBatteryProperties is working on
    batchPos,           \* processBatteryProperties' position in its three lookups
    step,               \* history: which listener step was taken last
    sleepEvent,         \* history: the sleep notification the last step received
    batteries,          \* history: number of enumerated devices of Type 2
    batchCalls,         \* history: engine calls made for the batch received last
    batteryCalled       \* history: the battery listener has called the engine

engineVars == <<energyEmpty, energyFull, firstReading, readings,
                printSuspendStats, enterSuspendTime, totalSuspendEnergy>>
clockVars == <<now, relNow, ticks>>
historyVars == <<call, admitted, lastPowerCall, resumedSince, limitCalls>>
fmtVars == <<duration, output, rateArgs, rateOut>>
listenerVars == <<batteryPc, devices, batteryPath, props, batchPos,
                  step, sleepEvent, batteries, batchCalls, batteryCalled>>
vars == <<engineVars, clockVars, out, historyVars, fmtVars, listenerVars>>

---------------------------------------------------------------------------
(* Bounds of the model *)

MaxAdmitted == 3
MaxTicks == 1
MaxHours == 2
MaxRateHours == 10
MaxDevices == 3
MaxDelivered == 2

EnergyValues == {1, 4}
EmptyValues == {0}
FullValues == {4, 5}
TickSteps == {90500}
SleepSteps == {3600000}
\* what the two notification sources may deliver
StateCodes == 0..6
DeviceTypes == {1, 2}
Stages == {"pre", "post", ""}
Operations == {"suspend", "hibernate"}
BatchEnergies == {1, 4}
MinuteSamples == {0, 1, 59}
SecondSamples == {0, 1, 30, 45, 59}
MilliSamples == {0, 999}
\* printRate on its own: energies in tenths of a Wh, durations in half hours
RateEnergies == {-25, 0, 2, 10, 25}
RateLimits == {<<>>, <<<<0, 1000>>>>, <<<<250, 500>>>>}
RateDurations == {k * 1800000 : k \in 0..(2 * MaxRateHours)}

Durations ==
    {((h * 60 + m) * 60 + s) * 1000 + ms :
        h \in 0..MaxHours, m \in MinuteSamples, s \in SecondSamples, ms \in MilliSamples}

---------------------------------------------------------------------------
(* Types of the program *)

PowerState == {"Awake", "Suspended", "Hibernating"}
BatteryState == {"Charging", "Discharging", "Idle"}
Stat == {"energy", "rate", "averageRate", "relEnergy"}

None == <<>>
Some(v) == <<v>>

Reading(time, relTime, energy) ==
    [time |-> time, relTime |-> relTime, energy |-> energy]

\* integer division truncating toward zero, as duration_cast does
TruncDiv(a, b) ==
    IF a >= 0 THEN a \div b ELSE -((-a) \div b)

Abs(x) ==
    IF x >= 0 THEN x ELSE -x

msPerSecond == 1000
secondsPerMinute == 60
minutesPerHour == 60
msPerHour == 3600000

---------------------------------------------------------------------------
(* formatRelTime: a string is the sequence of its "<count><unit>" tokens *)

Token(count, unit) ==
    [n |-> count, u |-> unit]

formatRelTimeNoSubtract(d) ==
    LET relTime == TruncDiv(d, msPerSecond)
        hours == TruncDiv(relTime, secondsPerMinute * minutesPerHour)
        mins == TruncDiv(relTime, secondsPerMinute)
        secs == relTime - hours * secondsPerMinute * minutesPerHour - mins * secondsPerMinute
    IN  IF relTime = 0 THEN <<>>
        ELSE (IF hours > 0 THEN <<Token(hours, "h")>> ELSE <<>>)
             \o (IF mins > 0 THEN <<Token(mins, "m")>> ELSE <<>>)
             \o (IF secs > 0 THEN <<Token(secs, "s")>> ELSE <<>>)

formatRelTime(d) ==
    LET relTime == TruncDiv(d, msPerSecond)
        hours == TruncDiv(relTime, secondsPerMinute * minutesPerHour)
        mins == TruncDiv(relTime, secondsPerMinute) - hours * minutesPerHour
        secs == relTime - hours * secondsPerMinute * minutesPerHour - mins * secondsPerMinute
    IN  IF relTime = 0 THEN <<>>
        ELSE (IF hours > 0 THEN <<Token(hours, "h")>> ELSE <<>>)
             \o (IF mins > 0 THEN <<Token(mins, "m")>> ELSE <<>>)
             \o (IF secs > 0 THEN <<Token(secs, "s")>> ELSE <<>>)

---------------------------------------------------------------------------
(* Quotients of doubles, kept exact: n / d.  d = 0 is the source's inf or nan. *)

RECURSIVE Gcd(_, _)
Gcd(a, b) ==
    IF b = 0 THEN a ELSE Gcd(b, a % b)

Ratio(n, d) ==
    [n |-> n, d |-> d]

\* mutant: the threshold is exclusive
AtLeastOneStrict(r) ==
    IF r.d = 0 THEN r.n # 0 ELSE Abs(r.n) > Abs(r.d)

\* |n / d| >= 1.0 in IEEE arithmetic: x/0 is inf for x # 0 and nan for x = 0,
\* and no comparison with nan is true
AtLeastOne(r) ==
    IF r.d = 0 THEN r.n # 0 ELSE Abs(r.n) >= Abs(r.d)

---------------------------------------------------------------------------
(* The engine.  A BatteryMonitor value is the record of its fields, with   *)
(* the lines it has written.                                               *)

BM ==
    [energyEmpty |-> energyEmpty, energyFull |-> energyFull,
     firstReading |-> firstReading, readings |-> readings,
     printSuspendStats |-> printSuspendStats,
     enterSuspendTime |-> enterSuspendTime,
     totalSuspendEnergy |-> totalSuspendEnergy,
     out |-> <<>>]

Constructed ==
    [energyEmpty |-> None, energyFull |-> None,
     firstReading |-> None, readings |-> <<>>,
     printSuspendStats |-> FALSE,
     enterSuspendTime |-> None,
     totalSuspendEnergy |-> 0,
     out |-> <<>>]

Msg(text, dur) ==
    [text |-> text, dur |-> dur]

haveLimits(bm) ==
    bm.energyEmpty # None /\ bm.energyFull # None

printRate(bm, energyDiff, timeDiff) ==
    LET g == Gcd(timeDiff, msPerHour)
        hoursN == timeDiff \div g
        hoursD == msPerHour \div g
        watts == Ratio(energyDiff * hoursD, hoursN)
        percentPerHour ==
            Ratio(100 * energyDiff * hoursD,
                  (bm.energyFull[1] - bm.energyEmpty[1]) * hoursN)
    IN  [watts |-> watts,
         percent |->
            IF haveLimits(bm)
            THEN IF AtLeastOne(percentPerHour)
                 THEN Some([value |-> percentPerHour, unit |-> "hr"])
                 ELSE Some([value |-> Ratio(percentPerHour.n * 24, percentPerHour.d),
                            unit |-> "day"])
            ELSE None]

\* mutant: the average is shown without a previous reading
showAverageNoSizeCheck(bm, flags) ==
    "averageRate" \in flags /\ bm.firstReading # None

\* (flags & Stat::averageRate) && firstReading && readings.size() > 1
showAverage(bm, flags) ==
    "averageRate" \in flags /\ bm.firstReading # None /\ Len(bm.readings) > 1

print(bm, msg, flags) ==
    LET stamp == TruncDiv(now, msPerSecond)
        runTimeStr ==
            IF bm.firstReading # None
            THEN formatRelTime(relNow - bm.firstReading[1].relTime)
            ELSE <<>>
        curReading == bm.readings[Len(bm.readings)]
        hasPrev == Len(bm.readings) > 1
        prevReading == bm.readings[Len(bm.readings) - 1]
        span == bm.energyFull[1] - bm.energyEmpty[1]
        energyField ==
            IF "energy" \in flags
            THEN Some([wh |-> curReading.energy,
                       percent |->
                          IF haveLimits(bm)
                          THEN Some(Ratio(100 * (curReading.energy - bm.energyEmpty[1]), span))
                          ELSE None])
            ELSE None
        relEnergyField ==
            IF "relEnergy" \in flags /\ hasPrev
            THEN Some([wh |-> curReading.energy - prevReading.energy,
                       percent |->
                          IF haveLimits(bm)
                          THEN Some(Ratio(100 * (curReading.energy - prevReading.energy), span))
                          ELSE None])
            ELSE None
        rateField ==
            IF "rate" \in flags /\ hasPrev
            THEN Some(printRate(bm, curReading.energy - prevReading.energy,
                                curReading.time - prevReading.time))
            ELSE None
        avgField ==
            IF showAverage(bm, flags)
            THEN Some(printRate(bm,
                                curReading.energy - bm.firstReading[1].energy
                                    - bm.totalSuspendEnergy,
                                curReading.relTime - bm.firstReading[1].relTime))
            ELSE None
        line ==
            IF bm.readings = <<>>
            THEN [stamp |-> stamp, runTime |-> runTimeStr, msg |-> msg, flags |-> flags,
                  energy |-> None, relEnergy |-> None, rate |-> None, avg |-> None]
            ELSE [stamp |-> stamp, runTime |-> runTimeStr, msg |-> msg, flags |-> flags,
                  energy |-> energyField, relEnergy |-> relEnergyField,
                  rate |-> rateField, avg |-> avgField]
    IN  [bm EXCEPT !.out = Append(@, line)]

\* mutant: readings are never dropped
isSuspendedNever(bm) ==
    FALSE

isSuspended(bm) ==
    bm.enterSuspendTime # None

\* mutant: a resume with no suspend entry is reported like any other
setPowerStateNoGuard(bm, powerState) ==
    CASE powerState = "Suspended" ->
            print([bm EXCEPT !.enterSuspendTime = Some(now)],
                  Msg("Going to sleep", <<>>), {})
      [] powerState = "Awake" ->
            LET suspendTime == IF bm.enterSuspendTime = None
                               THEN 0
                               ELSE now - bm.enterSuspendTime[1]
            IN  print([bm EXCEPT !.enterSuspendTime = None,
                                 !.printSuspendStats = TRUE],
                      Msg("Resumed from {} sleep", formatRelTime(suspendTime)), {})
      [] OTHER -> bm

\* mutant: the resume forgets to clear the suspend-entry timestamp
setPowerStateKeepEntry(bm, powerState) ==
    CASE powerState = "Suspended" ->
            print([bm EXCEPT !.enterSuspendTime = Some(now)],
                  Msg("Going to sleep", <<>>), {})
      [] powerState = "Awake" ->
            IF bm.enterSuspendTime = None
            THEN bm
            ELSE LET suspendTime == now - bm.enterSuspendTime[1]
                 IN  print([bm EXCEPT !.printSuspendStats = TRUE],
                           Msg("Resumed from {} sleep", formatRelTime(suspendTime)), {})
      [] OTHER -> bm

setPowerState(bm, powerState) ==
    CASE powerState = "Suspended" ->
            print([bm EXCEPT !.enterSuspendTime = Some(now)],
                  Msg("Going to sleep", <<>>), {})
      [] powerState = "Awake" ->
            IF bm.enterSuspendTime = None
            THEN bm
            ELSE LET suspendTime == now - bm.enterSuspendTime[1]
                 IN  print([bm EXCEPT !.enterSuspendTime = None,
                                      !.printSuspendStats = TRUE],
                           Msg("Resumed from {} sleep", formatRelTime(suspendTime)), {})
      [] OTHER -> bm

\* mutant: the reset forgets to zero the suspend-energy accumulator
setBatteryStateKeepTotal(bm, batteryState) ==
    IF batteryState = "Idle"
    THEN print(bm, Msg("Battery idle", <<>>), {})
    ELSE LET cleared == [bm EXCEPT !.firstReading = None,
                                   !.readings = <<>>]
         IN  CASE batteryState = "Charging" ->
                    print(cleared, Msg("Battery charging", <<>>), {})
               [] batteryState = "Discharging" ->
                    print(cleared, Msg("Battery discharging", <<>>), {})
               [] OTHER -> cleared

\* mutant: the reset also drops the pending suspend report
setBatteryStateClearsFlag(bm, batteryState) ==
    IF batteryState = "Idle"
    THEN print(bm, Msg("Battery idle", <<>>), {})
    ELSE LET cleared == [bm EXCEPT !.firstReading = None,
                                   !.readings = <<>>,
                                   !.totalSuspendEnergy = 0,
                                   !.printSuspendStats = FALSE]
         IN  CASE batteryState = "Charging" ->
                    print(cleared, Msg("Battery charging", <<>>), {})
               [] batteryState = "Discharging" ->
                    print(cleared, Msg("Battery discharging", <<>>), {})
               [] OTHER -> cleared

\* mutant: going idle clears the stats like the other transitions
setBatteryStateIdleClears(bm, batteryState) ==
    LET cleared == [bm EXCEPT !.firstReading = None,
                              !.readings = <<>>,
                              !.totalSuspendEnergy = 0]
    IN  CASE batteryState = "Idle" ->
               print(cleared, Msg("Battery idle", <<>>), {})
          [] batteryState = "Charging" ->
               print(cleared, Msg("Battery charging", <<>>), {})
          [] batteryState = "Discharging" ->
               print(cleared, Msg("Battery discharging", <<>>), {})
          [] OTHER -> cleared

setBatteryState(bm, batteryState) ==
    IF batteryState = "Idle"
    THEN print(bm, Msg("Battery idle", <<>>), {})
    ELSE LET cleared == [bm EXCEPT !.firstReading = None,
                                   !.readings = <<>>,
                                   !.totalSuspendEnergy = 0]
         IN  CASE batteryState = "Charging" ->
                    print(cleared, Msg("Battery charging", <<>>), {})
               [] batteryState = "Discharging" ->
                    print(cleared, Msg("Battery discharging", <<>>), {})
               [] OTHER -> cleared

\* mutant: limits already known are not overwritten
setBatteryLimitsKeepFirst(bm, empty, full) ==
    IF haveLimits(bm)
    THEN bm
    ELSE [bm EXCEPT !.energyEmpty = Some(empty), !.energyFull = Some(full)]

setBatteryLimits(bm, empty, full) ==
    [bm EXCEPT !.energyEmpty = Some(empty), !.energyFull = Some(full)]

\* mutant: the window is never trimmed
pushTrimNoPop(rs, r) ==
    Append(rs, r)

pushTrim(rs, r) ==
    LET pushed == Append(rs, r)
    IN  IF Len(pushed) > 2 THEN Tail(pushed) ELSE pushed

\* mutant: the delta is taken from the first reading of the epoch
suspendDeltaFromFirst(bm, energy) ==
    energy - bm.firstReading[1].energy

\* energy - std::prev(readings.end(), 2)->energy
suspendDelta(bm, energy) ==
    energy - bm.readings[Len(bm.readings) - 1].energy

\* mutant: the pending suspend report is never consumed
reportSuspendKeepFlag(bm, energy) ==
    LET b3 == IF Len(bm.readings) > 1
              THEN [bm EXCEPT !.totalSuspendEnergy = @ + suspendDelta(bm, energy)]
              ELSE bm
    IN  print(b3, Msg("Sleep energy use", <<>>), {"relEnergy", "rate"})

\* the printSuspendStats branch, entered after the reading was pushed
reportSuspend(bm, energy) ==
    LET b3 == IF Len(bm.readings) > 1
              THEN [bm EXCEPT !.totalSuspendEnergy = @ + suspendDelta(bm, energy)]
              ELSE bm
        b4 == print(b3, Msg("Sleep energy use", <<>>), {"relEnergy", "rate"})
    IN  [b4 EXCEPT !.printSuspendStats = FALSE]

\* mutant: every admitted reading becomes the first reading
updateEnergyAlwaysFirst(bm, energy) ==
    IF isSuspended(bm)
    THEN bm
    ELSE LET r == Reading(now, relNow, energy)
             b1 == [bm EXCEPT !.firstReading = Some(r)]
             b2 == [b1 EXCEPT !.readings = pushTrim(@, r)]
         IN  IF b2.printSuspendStats
             THEN reportSuspend(b2, energy)
             ELSE print(b2, Msg("", <<>>), {"energy", "rate", "averageRate"})

updateEnergy(bm, energy) ==
    IF isSuspended(bm)
    THEN bm
    ELSE LET r == Reading(now, relNow, energy)
             b1 == IF bm.firstReading = None
                   THEN [bm EXCEPT !.firstReading = Some(r)]
                   ELSE bm
             b2 == [b1 EXCEPT !.readings = pushTrim(@, r)]
         IN  IF b2.printSuspendStats
             THEN reportSuspend(b2, energy)
             ELSE print(b2, Msg("", <<>>), {"energy", "rate", "averageRate"})

---------------------------------------------------------------------------
(* The state machine: one action per engine entry point, and the clocks.   *)

Install(bm) ==
    /\ energyEmpty' = bm.energyEmpty
    /\ energyFull' = bm.energyFull
    /\ firstReading' = bm.firstReading
    /\ readings' = bm.readings
    /\ printSuspendStats' = bm.printSuspendStats
    /\ enterSuspendTime' = bm.enterSuspendTime
    /\ totalSuspendEnergy' = bm.totalSuspendEnergy
    /\ out' = bm.out

Call(op, arg) ==
    [op |-> op, arg |-> arg]

RateArgs(energyDiff, timeDiff, limits) ==
    [energyDiff |-> energyDiff, timeDiff |-> timeDiff, limits |-> limits]

NoRateArgs ==
    RateArgs(0, 0, None)

\* UPowerDeviceProperties, restricted to the four keys the program looks up
Props(state, empty, full, energy) ==
    [State |-> state, EnergyEmpty |-> empty, EnergyFull |-> full, Energy |-> energy]

NoProps ==
    Props(None, None, None, None)

SleepEvent(stage, operation) ==
    [stage |-> stage, operation |-> operation]

NoSleepEvent ==
    SleepEvent("", "")

ListenersNotStarted ==
    /\ batteryPc = "start"
    /\ devices = <<>>
    /\ batteryPath = None
    /\ props = NoProps
    /\ batchPos = 0
    /\ step = ""
    /\ sleepEvent = NoSleepEvent
    /\ batteries = 0
    /\ batchCalls = <<>>
    /\ batteryCalled = FALSE

InstallInit(bm) ==
    /\ energyEmpty = bm.energyEmpty
    /\ energyFull = bm.energyFull
    /\ firstReading = bm.firstReading
    /\ readings = bm.readings
    /\ printSuspendStats = bm.printSuspendStats
    /\ enterSuspendTime = bm.enterSuspendTime
    /\ totalSuspendEnergy = bm.totalSuspendEnergy
    /\ out = bm.out

Init ==
    /\ InstallInit(Constructed)
    /\ now = 0
    /\ relNow = 0
    /\ ticks = 0
    /\ call = Call("construct", "")
    /\ admitted = <<>>
    /\ lastPowerCall = ""
    /\ resumedSince = FALSE
    /\ limitCalls = None
    /\ duration = 0
    /\ output = <<>>
    /\ rateArgs = NoRateArgs
    /\ rateOut = None
    /\ ListenersNotStarted

DoSetPowerState(powerState) ==
    /\ Install(setPowerState(BM, powerState))
    /\ call' = Call("setPowerState", powerState)
    /\ lastPowerCall' = IF powerState \in {"Suspended", "Awake"}
                        THEN powerState ELSE lastPowerCall
    /\ resumedSince' = (resumedSince
                            \/ (powerState = "Awake" /\ lastPowerCall = "Suspended"))
    /\ UNCHANGED <<admitted, limitCalls>>

CallSetPowerState(powerState) ==
    /\ DoSetPowerState(powerState)
    /\ UNCHANGED <<clockVars, fmtVars, listenerVars>>

DoSetBatteryState(batteryState) ==
    /\ Install(setBatteryState(BM, batteryState))
    /\ call' = Call("setBatteryState", batteryState)
    /\ admitted' = IF batteryState = "Idle" THEN admitted ELSE <<>>
    /\ UNCHANGED <<lastPowerCall, resumedSince, limitCalls>>

CallSetBatteryState(batteryState) ==
    /\ DoSetBatteryState(batteryState)
    /\ UNCHANGED <<clockVars, fmtVars, listenerVars>>

DoSetBatteryLimits(empty, full) ==
    /\ Install(setBatteryLimits(BM, empty, full))
    /\ call' = Call("setBatteryLimits", "")
    /\ limitCalls' = Some(<<empty, full>>)
    /\ UNCHANGED <<admitted, lastPowerCall, resumedSince>>

CallSetBatteryLimits(empty, full) ==
    /\ DoSetBatteryLimits(empty, full)
    /\ UNCHANGED <<clockVars, fmtVars, listenerVars>>

DoUpdateEnergy(energy) ==
    /\ lastPowerCall = "Suspended" \/ Len(admitted) < MaxAdmitted
    /\ Install(updateEnergy(BM, energy))
    /\ call' = Call("updateEnergy", "")
    /\ IF lastPowerCall = "Suspended"
       THEN UNCHANGED <<admitted, resumedSince>>
       ELSE /\ admitted' = Append(admitted,
                                  [r |-> Reading(now, relNow, energy), sep |-> resumedSince])
            /\ resumedSince' = FALSE
    /\ UNCHANGED <<lastPowerCall, limitCalls>>

CallUpdateEnergy(energy) ==
    /\ DoUpdateEnergy(energy)
    /\ UNCHANGED <<clockVars, fmtVars, listenerVars>>

\* both clocks advance while the machine runs
DoTick(d) ==
    /\ ticks < MaxTicks
    /\ now' = now + d
    /\ relNow' = relNow + d
    /\ ticks' = ticks + 1
    /\ out' = <<>>
    /\ call' = Call("tick", "")
    /\ UNCHANGED <<engineVars, admitted, lastPowerCall, resumedSince, limitCalls>>

Tick(d) ==
    /\ DoTick(d)
    /\ UNCHANGED <<fmtVars, listenerVars>>

\* the machine sleeps between the suspend and resume notifications: the
\* system clock advances, the steady clock does not count the time asleep
DoSleep(d) ==
    /\ ticks < MaxTicks
    /\ lastPowerCall = "Suspended"
    /\ now' = now + d
    /\ ticks' = ticks + 1
    /\ out' = <<>>
    /\ call' = Call("sleep", "")
    /\ UNCHANGED <<relNow, engineVars, admitted, lastPowerCall, resumedSince, limitCalls>>

Sleep(d) ==
    /\ DoSleep(d)
    /\ UNCHANGED <<fmtVars, listenerVars>>

Next ==
    \/ \E powerState \in PowerState : CallSetPowerState(powerState)
    \/ \E batteryState \in BatteryState : CallSetBatteryState(batteryState)
    \/ \E empty \in EmptyValues, full \in FullValues : CallSetBatteryLimits(empty, full)
    \/ \E energy \in EnergyValues : CallUpdateEnergy(energy)
    \/ \E d \in TickSteps : Tick(d)
    \/ \E d \in SleepSteps : Sleep(d)

Spec == Init /\ [][Next]_vars

---------------------------------------------------------------------------
(* The program: main runs the two listeners on one context.  A listener    *)
(* runs from one co_await to the next; processBatteryProperties is an      *)
(* ordinary function, walked here lookup by lookup.  Both clocks stand     *)
(* still in SpecMain: nothing a listener decides reads them, and Spec      *)
(* covers what the engine does with time.                                  *)

Optional(S) ==
    {None} \cup {Some(v) : v \in S}

PropertyBatches ==
    {Props(state, empty, full, energy) :
        state \in Optional(StateCodes), empty \in Optional(EmptyValues),
        full \in Optional(FullValues), energy \in Optional(BatchEnergies)}

Device(path, type) ==
    [path |-> path, type |-> type]

DeviceLists ==
    UNION {{[i \in 1..n |-> Device(i, types[i])] : types \in [1..n -> DeviceTypes]} :
              n \in 0..MaxDevices}

RECURSIVE CountType(_, _)
CountType(ds, type) ==
    IF ds = <<>> THEN 0
    ELSE (IF Head(ds).type = type THEN 1 ELSE 0) + CountType(Tail(ds), type)

\* sleepEventMonitor's body: the engine call one notification leads to
sleepEventCallAnyOperation(stage, operation) ==
    IF stage = "pre" THEN Some("Suspended")
    ELSE IF stage = "post" THEN Some("Awake")
    ELSE None

sleepEventCall(stage, operation) ==
    IF operation = "suspend"
    THEN IF stage = "pre" THEN Some("Suspended")
         ELSE IF stage = "post" THEN Some("Awake")
         ELSE None
    ELSE None

\* processBatteryProperties' switch on the State code
stateCallEmptyIsIdle(state) ==
    CASE state = 1 -> Some("Charging")
      [] state = 2 -> Some("Discharging")
      [] state \in {3, 4, 5} -> Some("Idle")
      [] OTHER -> None

stateCall(state) ==
    CASE state = 1 -> Some("Charging")
      [] state = 2 -> Some("Discharging")
      [] state \in {4, 5} -> Some("Idle")
      [] OTHER -> None

\* processBatteryProperties' nested lookups of the two bounds
limitsCallEmptyAlone(properties) ==
    IF properties.EnergyEmpty # None
    THEN IF properties.EnergyFull # None
         THEN Some(<<properties.EnergyEmpty[1], properties.EnergyFull[1]>>)
         ELSE Some(<<properties.EnergyEmpty[1], properties.EnergyEmpty[1]>>)
    ELSE None

limitsCall(properties) ==
    IF properties.EnergyEmpty # None
    THEN IF properties.EnergyFull # None
         THEN Some(<<properties.EnergyEmpty[1], properties.EnergyFull[1]>>)
         ELSE None
    ELSE None

\* the keys processBatteryProperties looks up, in the order of its statements
batchOrderEnergyFirst ==
    <<"Energy", "EnergyEmpty", "State">>

batchOrder ==
    <<"State", "EnergyEmpty", "Energy">>

\* a listener is resumed only while the other one waits at a co_await:
\* powerEventMonitor has none between receiving a batch and finishing it
AtAwaitPointAnywhere(pc) ==
    pc \in {"start", "type", "snapshot", "watch", "process", "done"}

AtAwaitPoint(pc) ==
    pc \in {"start", "type", "snapshot", "watch", "done"}

\* powerEventMonitor's loop body for one device, and what follows the loop
inspectTypeLastWins(device, found) ==
    IF device.type = 2
    THEN [batteryPath |-> Some(device.path), returned |-> FALSE,
          out |-> <<Msg("Found battery at", device.path)>>]
    ELSE [batteryPath |-> found, returned |-> FALSE, out |-> <<>>]

inspectType(device, found) ==
    IF device.type = 2
    THEN IF found # None
         THEN [batteryPath |-> found, returned |-> TRUE,
               out |-> <<Msg("Found battery at", device.path),
                         Msg("Multiple batteries not supported yet", 0)>>]
         ELSE [batteryPath |-> Some(device.path), returned |-> FALSE,
               out |-> <<Msg("Found battery at", device.path)>>]
    ELSE [batteryPath |-> found, returned |-> FALSE, out |-> <<>>]

afterLoop(found, lines) ==
    IF found = None
    THEN [pc |-> "done", out |-> Append(lines, Msg("No battery found", 0))]
    ELSE [pc |-> "snapshot", out |-> lines]

\* a step that calls no engine entry point
NoCall(lines) ==
    /\ out' = lines
    /\ call' = Call("none", "")
    /\ UNCHANGED <<engineVars, admitted, lastPowerCall, resumedSince, limitCalls>>

SystemdSleepEvent(stage, operation) ==
    /\ AtAwaitPoint(batteryPc)
    /\ LET c == sleepEventCall(stage, operation)
       IN  IF c # None THEN DoSetPowerState(c[1]) ELSE NoCall(<<>>)
    /\ step' = "sleep"
    /\ sleepEvent' = SleepEvent(stage, operation)
    /\ UNCHANGED <<batteryPc, devices, batteryPath, props, batchPos, batteries,
                   batchCalls, batteryCalled, clockVars, fmtVars>>

EnumerateDevices(ds) ==
    /\ batteryPc = "start"
    /\ batteries' = CountType(ds, 2)
    /\ devices' = ds
    /\ IF ds = <<>>
       THEN LET r == afterLoop(batteryPath, <<>>)
            IN  batteryPc' = r.pc /\ NoCall(r.out)
       ELSE batteryPc' = "type" /\ NoCall(<<>>)
    /\ step' = "enumerate"
    /\ sleepEvent' = NoSleepEvent
    /\ UNCHANGED <<batteryPath, props, batchPos, batchCalls, batteryCalled,
                   clockVars, fmtVars>>

GetType ==
    /\ batteryPc = "type"
    /\ LET r == inspectType(Head(devices), batteryPath)
           a == afterLoop(r.batteryPath, r.out)
       IN  /\ batteryPath' = r.batteryPath
           /\ IF r.returned
              THEN batteryPc' = "done" /\ devices' = <<>> /\ NoCall(r.out)
              ELSE IF Tail(devices) = <<>>
              THEN batteryPc' = a.pc /\ devices' = <<>> /\ NoCall(a.out)
              ELSE batteryPc' = "type" /\ devices' = Tail(devices) /\ NoCall(r.out)
    /\ step' = "type"
    /\ sleepEvent' = NoSleepEvent
    /\ UNCHANGED <<props, batchPos, batteries, batchCalls, batteryCalled,
                   clockVars, fmtVars>>

\* get_all_properties answers, or the next PropertiesChanged signal arrives
Receive(properties) ==
    /\ batteryPc \in {"snapshot", "watch"}
    /\ properties.Energy # None => Len(admitted) < MaxDelivered
    /\ props' = properties
    /\ batteryPc' = "process"
    /\ batchPos' = 1
    /\ batchCalls' = <<>>
    /\ NoCall(<<>>)
    /\ step' = "receive"
    /\ sleepEvent' = NoSleepEvent
    /\ UNCHANGED <<devices, batteryPath, batteries, batteryCalled, clockVars, fmtVars>>

\* processBatteryProperties moves to its next lookup, or returns to the co_await
Advance(key) ==
    /\ IF batchPos = Len(batchOrder)
       THEN batteryPc' = "watch" /\ batchPos' = 0 /\ props' = NoProps
       ELSE batteryPc' = batteryPc /\ batchPos' = batchPos + 1 /\ props' = props
    /\ step' = key
    /\ sleepEvent' = NoSleepEvent
    /\ UNCHANGED <<devices, batteryPath, batteries, clockVars, fmtVars>>

Called(op) ==
    /\ batchCalls' = Append(batchCalls, op)
    /\ batteryCalled' = TRUE

NotCalled ==
    /\ NoCall(<<>>)
    /\ UNCHANGED <<batchCalls, batteryCalled>>

LookupState ==
    /\ batteryPc = "process"
    /\ batchOrder[batchPos] = "State"
    /\ LET c == IF props.State # None THEN stateCall(props.State[1]) ELSE None
       IN  IF c # None
           THEN DoSetBatteryState(c[1]) /\ Called("setBatteryState")
           ELSE NotCalled
    /\ Advance("State")

LookupLimits ==
    /\ batteryPc = "process"
    /\ batchOrder[batchPos] = "EnergyEmpty"
    /\ LET c == limitsCall(props)
       IN  IF c # None
           THEN DoSetBatteryLimits(c[1][1], c[1][2]) /\ Called("setBatteryLimits")
           ELSE NotCalled
    /\ Advance("EnergyEmpty")

LookupEnergy ==
    /\ batteryPc = "process"
    /\ batchOrder[batchPos] = "Energy"
    /\ IF props.Energy # None
       THEN DoUpdateEnergy(props.Energy[1]) /\ Called("updateEnergy")
       ELSE NotCalled
    /\ Advance("Energy")

NextMain ==
    \/ \E stage \in Stages, operation \in Operations : SystemdSleepEvent(stage, operation)
    \/ \E ds \in DeviceLists : EnumerateDevices(ds)
    \/ GetType
    \/ \E properties \in PropertyBatches : Receive(properties)
    \/ LookupState
    \/ LookupLimits
    \/ LookupEnergy

SpecMain == Init /\ [][NextMain]_vars

---------------------------------------------------------------------------
(* formatRelTime on its own: the argument is drawn from Durations. *)

InitFmt ==
    /\ InstallInit(Constructed)
    /\ now = 0
    /\ relNow = 0
    /\ ticks = 0
    /\ call = Call("construct", "")
    /\ admitted = <<>>
    /\ lastPowerCall = ""
    /\ resumedSince = FALSE
    /\ limitCalls = None
    /\ duration \in Durations
    /\ output = <<>>
    /\ rateArgs = NoRateArgs
    /\ rateOut = None
    /\ ListenersNotStarted

CallFormatRelTime ==
    /\ call.op = "construct"
    /\ output' = formatRelTime(duration)
    /\ call' = Call("formatRelTime", "")
    /\ UNCHANGED <<engineVars, clockVars, out, admitted, lastPowerCall,
                   resumedSince, limitCalls, duration, rateArgs, rateOut, listenerVars>>

NextFmt ==
    CallFormatRelTime

SpecFmt == InitFmt /\ [][NextFmt]_vars

---------------------------------------------------------------------------
(* printRate on its own: the arguments and the limits are drawn from        *)
(* RateEnergies, RateDurations and RateLimits.                              *)

InitRate ==
    /\ InstallInit(Constructed)
    /\ now = 0
    /\ relNow = 0
    /\ ticks = 0
    /\ call = Call("construct", "")
    /\ admitted = <<>>
    /\ lastPowerCall = ""
    /\ resumedSince = FALSE
    /\ limitCalls = None
    /\ duration = 0
    /\ output = <<>>
    /\ rateArgs \in {RateArgs(e, t, l) :
                        e \in RateEnergies, t \in RateDurations, l \in RateLimits}
    /\ rateOut = None
    /\ ListenersNotStarted

WithLimits(bm, limits) ==
    IF limits = None
    THEN bm
    ELSE setBatteryLimits(bm, limits[1][1], limits[1][2])

CallPrintRate ==
    /\ call.op = "construct"
    /\ rateOut' = Some(printRate(WithLimits(BM, rateArgs.limits),
                                 rateArgs.energyDiff, rateArgs.timeDiff))
    /\ call' = Call("printRate", "")
    /\ UNCHANGED <<engineVars, clockVars, out, admitted, lastPowerCall,
                   resumedSince, limitCalls, duration, output, rateArgs, listenerVars>>

NextRate ==
    CallPrintRate

SpecRate == InitRate /\ [][NextRate]_vars

\* std::format("{:.Nf}", x): x rounded to N decimals, as the integer x * 10^N
\* (nearest, ties to even, on the exact quotient)
RECURSIVE Pow10(_)
Pow10(places) ==
    IF places = 0 THEN 1 ELSE 10 * Pow10(places - 1)

FormatFixed(r, places) ==
    LET sign == IF (r.n < 0) # (r.d < 0) THEN -1 ELSE 1
        num == Abs(r.n) * Pow10(places)
        den == Abs(r.d)
        q == num \div den
        rem2 == 2 * (num % den)
        up == rem2 > den \/ (rem2 = den /\ q % 2 = 1)
    IN  sign * (IF up THEN q + 1 ELSE q)

---------------------------------------------------------------------------
(* Claims *)

Min(a, b) ==
    IF a <= b THEN a ELSE b

LastN(seq, k) ==
    SubSeq(seq, Len(seq) - k + 1, Len(seq))

AdmittedReadings ==
    [i \in 1..Len(admitted) |-> admitted[i].r]

\* C1: the Sample Window holds at most 2 readings, and they are the last
\* min(2, n) of the n readings admitted since the most recent
\* Charging/Discharging reset, oldest first.
C1_WindowIsLastTwoAdmitted ==
    /\ Len(readings) <= 2
    /\ readings = LastN(AdmittedReadings, Min(2, Len(admitted)))

C1_Witness ==
    /\ Len(admitted) = 3
    /\ admitted[1].r.energy # admitted[2].r.energy
    /\ admitted[2].r.energy # admitted[3].r.energy
    /\ readings = <<admitted[2].r, admitted[3].r>>

\* C2: an updateEnergy call made while a suspend-entry timestamp is recorded
\* changes no field of the engine and writes no line.
C2_SuspendedUpdateChangesNothing ==
    [][(call'.op = "updateEnergy" /\ enterSuspendTime # None)
        => (UNCHANGED engineVars /\ out' = <<>>)]_vars

C2_Witness ==
    /\ call.op = "updateEnergy"
    /\ enterSuspendTime # None
    /\ out = <<>>
    /\ Len(readings) = 2
    /\ printSuspendStats
    /\ energyEmpty # None

\* C10: for a non-negative duration d with S whole seconds, formatRelTime(d)
\* is the h, m, s tokens of H = S div 3600, M = (S div 60) mod 60 and
\* Sec = S mod 60, each present only if nonzero; H*3600 + M*60 + Sec = S; the
\* result is empty exactly when d is under one second.
C10_FormatRelTime ==
    call.op = "formatRelTime" =>
        LET S == duration \div 1000
            H == S \div 3600
            M == (S \div 60) % 60
            Sec == S % 60
        IN  /\ output = (IF H # 0 THEN <<Token(H, "h")>> ELSE <<>>)
                        \o (IF M # 0 THEN <<Token(M, "m")>> ELSE <<>>)
                        \o (IF Sec # 0 THEN <<Token(Sec, "s")>> ELSE <<>>)
            /\ H * 3600 + M * 60 + Sec = S
            /\ (output = <<>>) <=> (duration < 1000)
            /\ duration = 3661000 =>
                  output = <<Token(1, "h"), Token(1, "m"), Token(1, "s")>>
            /\ duration = 90000 => output = <<Token(1, "m"), Token(30, "s")>>
            /\ duration = 45000 => output = <<Token(45, "s")>>
            /\ duration = 0 => output = <<>>

C10_Witness ==
    /\ call.op = "formatRelTime"
    /\ duration = 3661999
    /\ output = <<Token(1, "h"), Token(1, "m"), Token(1, "s")>>

\* the reading an updateEnergy step has just pushed, and the window's newest
\* entry before the step
Admitting ==
    call'.op = "updateEnergy" /\ lastPowerCall # "Suspended"

\* C3: the first reading admitted after a resume adds (its energy - the
\* energy of the window entry preceding it) to the suspend-energy
\* accumulator, or nothing if the window held no entry; a reading admitted
\* with no pending suspend report never changes the accumulator.
C3_SuspendDeltaAccumulated ==
    [][Admitting =>
        LET energy == readings'[Len(readings')].energy
        IN  /\ (resumedSince /\ readings # <<>>) =>
                  totalSuspendEnergy' =
                      totalSuspendEnergy + (energy - readings[Len(readings)].energy)
            /\ (resumedSince /\ readings = <<>>) =>
                  totalSuspendEnergy' = totalSuspendEnergy
            /\ ~printSuspendStats => totalSuspendEnergy' = totalSuspendEnergy]_vars

C3_Witness ==
    /\ call.op = "updateEnergy"
    /\ out # <<>>
    /\ out[1].msg.text = "Sleep energy use"
    /\ Len(admitted) = 3
    /\ admitted[3].sep
    /\ ~admitted[2].sep
    /\ admitted[1].r.energy # admitted[2].r.energy
    /\ totalSuspendEnergy = admitted[3].r.energy - admitted[2].r.energy
    /\ totalSuspendEnergy # 0

RECURSIVE AwakeSum(_)
AwakeSum(h) ==
    IF Len(h) < 2 THEN 0
    ELSE AwakeSum(SubSeq(h, 1, Len(h) - 1))
         + (IF h[Len(h)].sep THEN 0
            ELSE h[Len(h)].r.energy - h[Len(h) - 1].r.energy)

\* C4: whenever the window holds 2 readings, current energy - First Reading
\* energy - total suspend energy is the sum of the deltas between consecutive
\* admitted readings since the last reset, over exactly the pairs that no
\* suspend..resume separated.
C4_AverageExcludesSuspendDeltas ==
    Len(readings) = 2 =>
        readings[2].energy - firstReading[1].energy - totalSuspendEnergy
            = AwakeSum(admitted)

C4_Witness ==
    /\ Len(readings) = 2
    /\ Len(admitted) = 3
    /\ admitted[2].sep
    /\ ~admitted[3].sep
    /\ admitted[2].r.energy # admitted[1].r.energy
    /\ admitted[3].r.energy # admitted[2].r.energy
    /\ totalSuspendEnergy # 0
    /\ AwakeSum(admitted) # 0

\* C5: setBatteryState(Idle) leaves First Reading, the window and the
\* accumulator unchanged; setBatteryState(Charging) and (Discharging) leave
\* First Reading unset, the window empty and the accumulator 0.
C5_ResetOnChargingDischarging ==
    [][call'.op = "setBatteryState" =>
        IF call'.arg = "Idle"
        THEN UNCHANGED <<firstReading, readings, totalSuspendEnergy>>
        ELSE /\ call'.arg \in {"Charging", "Discharging"}
             /\ firstReading' = None
             /\ readings' = <<>>
             /\ totalSuspendEnergy' = 0]_vars

C5_Witness ==
    /\ call = Call("setBatteryState", "Discharging")
    /\ enterSuspendTime # None
    /\ printSuspendStats
    /\ firstReading = None
    /\ readings = <<>>
    /\ totalSuspendEnergy = 0
    /\ energyFull # None

\* the percentage fields of a line, as the limits last passed to
\* setBatteryLimits give them
PercentOfCapacity(wh, empty, full) ==
    Ratio(100 * (wh - empty), full - empty)

PercentOfSpan(wh, empty, full) ==
    Ratio(100 * wh, full - empty)

LineUsesLimits(line) ==
    /\ line.energy # None =>
          line.energy[1].percent =
              IF limitCalls = None THEN None
              ELSE Some(PercentOfCapacity(line.energy[1].wh,
                                          limitCalls[1][1], limitCalls[1][2]))
    /\ line.relEnergy # None =>
          line.relEnergy[1].percent =
              IF limitCalls = None THEN None
              ELSE Some(PercentOfSpan(line.relEnergy[1].wh,
                                      limitCalls[1][1], limitCalls[1][2]))
    /\ line.rate # None =>
          IF limitCalls = None THEN line.rate[1].percent = None
          ELSE /\ line.rate[1].percent # None
               /\ LET v == line.rate[1].percent[1].value
                      w == line.rate[1].watts
                      perDay == IF line.rate[1].percent[1].unit = "day" THEN 24 ELSE 1
                  IN  \* percent = 100 * watts / (full - empty), per hour or per day
                      /\ v.n = 100 * w.n * perDay
                      /\ v.d = w.d * (limitCalls[1][2] - limitCalls[1][1])
    /\ line.avg # None =>
          IF limitCalls = None THEN line.avg[1].percent = None
          ELSE /\ line.avg[1].percent # None
               /\ LET v == line.avg[1].percent[1].value
                      w == line.avg[1].watts
                      perDay == IF line.avg[1].percent[1].unit = "day" THEN 24 ELSE 1
                  IN  /\ v.n = 100 * w.n * perDay
                      /\ v.d = w.d * (limitCalls[1][2] - limitCalls[1][1])

\* C6: Capacity Limits equal the arguments of the most recent
\* setBatteryLimits call (absent if there was none), whatever other calls
\* were made since, and every percentage written is computed from them.
C6_LimitsAreLatestCall ==
    /\ IF limitCalls = None
       THEN energyEmpty = None /\ energyFull = None
       ELSE /\ energyEmpty = Some(limitCalls[1][1])
            /\ energyFull = Some(limitCalls[1][2])
    /\ \A i \in 1..Len(out) : LineUsesLimits(out[i])

C6_Witness ==
    /\ limitCalls = Some(<<0, 5>>)
    /\ call.op = "updateEnergy"
    /\ Len(admitted) = 1
    /\ admitted[1].r.energy = 4
    /\ lastPowerCall = "Awake"
    /\ out # <<>>
    /\ out[1].energy # None
    /\ out[1].energy[1].percent = Some(Ratio(400, 5))

SpuriousAwake ==
    call' = Call("setPowerState", "Awake") /\ enterSuspendTime = None

AfterSpuriousAwake ==
    call = Call("setPowerState", "Awake") /\ out = <<>>

NormalSummary ==
    /\ Len(out') = 1
    /\ out'[1].msg.text = ""
    /\ out'[1].flags = {"energy", "rate", "averageRate"}
    /\ totalSuspendEnergy' = totalSuspendEnergy

\* C7 as stated: setPowerState(Awake) with no suspend-entry timestamp is a
\* no-op, and a following admitted reading is reported as a normal summary
\* (energy + rate + average rate) and adds nothing to the accumulator.
C7_AsStated ==
    [][/\ SpuriousAwake => (UNCHANGED engineVars /\ out' = <<>>)
       /\ (AfterSpuriousAwake /\ call'.op = "updateEnergy") => NormalSummary]_vars

\* C7 amended: the call is a no-op, and a following admitted reading is reported
\* as a normal summary adding nothing to the accumulator unless a suspend
\* report was already pending from an earlier resume.
C7_SpuriousAwakeIsNoOp ==
    [][/\ SpuriousAwake => (UNCHANGED engineVars /\ out' = <<>>)
       /\ (AfterSpuriousAwake /\ ~printSuspendStats /\ call'.op = "updateEnergy")
             => NormalSummary]_vars

C7_Witness ==
    /\ AfterSpuriousAwake
    /\ enterSuspendTime = None
    /\ ~printSuspendStats
    /\ Len(readings) = 2
    /\ totalSuspendEnergy # 0
    /\ energyEmpty # None

\* C8: the pending-suspend-report flag is set only by a resume; it is cleared
\* by the first reading admitted after that resume and by nothing else; that
\* reading's summary requests relative energy + rate only; every reading
\* admitted while the flag is clear requests energy + rate + average rate.
C8_PendingReportIsOneShot ==
    [][/\ (~printSuspendStats /\ printSuspendStats') =>
             (call' = Call("setPowerState", "Awake") /\ lastPowerCall = "Suspended")
       /\ (call' = Call("setPowerState", "Awake") /\ lastPowerCall = "Suspended") =>
             printSuspendStats'
       /\ (printSuspendStats /\ ~printSuspendStats') => Admitting
       /\ (Admitting /\ printSuspendStats) =>
             /\ ~printSuspendStats'
             /\ Len(out') = 1
             /\ out'[1].flags = {"relEnergy", "rate"}
       /\ (Admitting /\ ~printSuspendStats) =>
             /\ ~printSuspendStats'
             /\ Len(out') = 1
             /\ out'[1].flags = {"energy", "rate", "averageRate"}]_vars

C8_Witness ==
    /\ call.op = "updateEnergy"
    /\ out # <<>>
    /\ out[1].msg.text = "Sleep energy use"
    /\ out[1].flags = {"relEnergy", "rate"}
    /\ out[1].energy = None
    /\ out[1].relEnergy # None
    /\ ~printSuspendStats
    /\ ~resumedSince

\* C9: isSuspended() is true exactly when the most recent setPowerState call
\* with argument Suspended or Awake had argument Suspended; no reading
\* enters the window between a Suspended call and the next Awake call.
C9_SuspendedIffLastPowerCall ==
    /\ [](isSuspended(BM) <=> lastPowerCall = "Suspended")
    /\ [][(lastPowerCall = "Suspended" /\ call'.op = "updateEnergy")
            => readings' = readings]_vars
    /\ [][call'.op \in {"setBatteryState", "setBatteryLimits", "updateEnergy"}
             \/ call' = Call("setPowerState", "Hibernating")
            => isSuspended(BM)' = isSuspended(BM)]_vars

C9_Witness ==
    /\ call = Call("setPowerState", "Hibernating")
    /\ lastPowerCall = "Suspended"
    /\ isSuspended(BM)
    /\ Len(readings) = 2

\* the fields a line shows, against the window it was written from
LineFieldsGuarded(line) ==
    /\ line.relEnergy # None <=> ("relEnergy" \in line.flags /\ Len(readings) = 2)
    /\ line.rate # None <=> ("rate" \in line.flags /\ Len(readings) = 2)
    /\ line.avg # None <=>
          ("averageRate" \in line.flags /\ firstReading # None /\ Len(readings) = 2)
    /\ line.energy # None <=> ("energy" \in line.flags /\ readings # <<>>)

\* C17: in every line written, relative energy and rate appear only with 2
\* readings in the window, the average rate only if requested with First
\* Reading set and 2 readings in the window; the first reading admitted after
\* a reset shows at most the absolute energy, with a percentage exactly when
\* the Capacity Limits are known, and no relative, rate or average field.
C17_FieldsNeedPreviousReading ==
    \A i \in 1..Len(out) :
        /\ LineFieldsGuarded(out[i])
        /\ (call.op = "updateEnergy" /\ Len(admitted) = 1) =>
              /\ out[i].relEnergy = None
              /\ out[i].rate = None
              /\ out[i].avg = None
              /\ out[i].energy # None =>
                    (out[i].energy[1].percent # None <=> haveLimits(BM))

C17_Witness ==
    /\ call.op = "updateEnergy"
    /\ Len(admitted) = 1
    /\ Len(out) = 1
    /\ out[1].flags = {"energy", "rate", "averageRate"}
    /\ out[1].energy = Some([wh |-> 4, percent |-> Some(Ratio(400, 4))])
    /\ out[1].rate = None
    /\ out[1].avg = None

\* C19: First Reading is set exactly when the window is non-empty; when set
\* it is the first reading admitted since the most recent reset; the
\* accumulator is 0 whenever the window holds fewer than 2 readings.
C19_FirstReadingIsFirstAdmitted ==
    /\ firstReading # None <=> readings # <<>>
    /\ firstReading # None <=> admitted # <<>>
    /\ firstReading # None => firstReading = Some(admitted[1].r)
    /\ Len(readings) < 2 => totalSuspendEnergy = 0

C19_Witness ==
    /\ Len(admitted) = 3
    /\ firstReading = Some(admitted[1].r)
    /\ admitted[1].r # admitted[2].r
    /\ admitted[1].r # admitted[3].r
    /\ totalSuspendEnergy # 0

\* C20: a Charging/Discharging reset changes neither the suspend-entry
\* timestamp nor the pending-suspend-report flag; the first reading admitted
\* after the reset with the flag pending consumes it, is written as the sleep
\* report (relative energy + rate requested) and adds nothing to the
\* accumulator; a reset while suspended leaves isSuspended() true.
C20_ResetKeepsSuspendAccounting ==
    [][/\ call'.op = "setBatteryState" =>
             /\ UNCHANGED <<enterSuspendTime, printSuspendStats>>
             /\ isSuspended(BM)' = isSuspended(BM)
       /\ (Admitting /\ printSuspendStats /\ admitted = <<>>) =>
             /\ ~printSuspendStats'
             /\ Len(out') = 1
             /\ out'[1].msg.text = "Sleep energy use"
             /\ out'[1].flags = {"relEnergy", "rate"}
             /\ totalSuspendEnergy' = totalSuspendEnergy
             /\ totalSuspendEnergy' = 0]_vars

C20_Witness ==
    /\ call = Call("setBatteryState", "Charging")
    /\ lastPowerCall = "Awake"
    /\ printSuspendStats
    /\ enterSuspendTime = None
    /\ readings = <<>>
    /\ energyFull = Some(5)
    /\ ticks = 1

\* a quotient in lowest terms with a positive denominator
Reduce(r) ==
    LET g == Gcd(Abs(r.n), Abs(r.d))
        sign == IF r.d < 0 THEN -1 ELSE 1
    IN  Ratio(sign * (r.n \div g), sign * (r.d \div g))

SameValue(a, b) ==
    Reduce(a) = Reduce(b)

\* C18: with the limits known, percent-per-hour is
\* 100 * energyDelta / (full - empty) / hours, shown as %/hr when its absolute
\* value is at least 1.0 and otherwise times 24 as %/day; with empty 0 and
\* full 100, +2.5 Wh over 1 hour gives 2.50 W and 2.5 %/hr, and over 10 hours
\* 6.0 %/day.  (Energies are in tenths of a Wh, durations in half hours; the
\* formula is checked where the duration and full - empty are not zero.)
C18_RateThreshold ==
    call.op = "printRate" =>
        LET e == rateArgs.energyDiff
            halfHours == rateArgs.timeDiff \div 1800000
            shown == rateOut[1]
        IN  /\ rateArgs.limits = None => shown.percent = None
            /\ halfHours > 0 => SameValue(shown.watts, Ratio(2 * e, halfHours))
            /\ (rateArgs.limits # None /\ halfHours > 0
                   /\ rateArgs.limits[1][2] # rateArgs.limits[1][1]) =>
                  LET span == rateArgs.limits[1][2] - rateArgs.limits[1][1]
                      perHourN == 100 * e * 2
                      perHourD == span * halfHours
                  IN  /\ shown.percent # None
                      /\ IF Abs(perHourN) >= Abs(perHourD)
                         THEN /\ shown.percent[1].unit = "hr"
                              /\ SameValue(shown.percent[1].value,
                                           Ratio(perHourN, perHourD))
                         ELSE /\ shown.percent[1].unit = "day"
                              /\ SameValue(shown.percent[1].value,
                                           Ratio(24 * perHourN, perHourD))
            /\ (e = 25 /\ rateArgs.limits = Some(<<0, 1000>>)
                    /\ rateArgs.timeDiff = msPerHour) =>
                  /\ FormatFixed(Ratio(shown.watts.n, 10 * shown.watts.d), 2) = 250
                  /\ shown.percent[1].unit = "hr"
                  /\ FormatFixed(shown.percent[1].value, 1) = 25
            /\ (e = 25 /\ rateArgs.limits = Some(<<0, 1000>>)
                    /\ rateArgs.timeDiff = 10 * msPerHour) =>
                  /\ shown.percent[1].unit = "day"
                  /\ FormatFixed(shown.percent[1].value, 1) = 60

C18_Witness ==
    /\ call.op = "printRate"
    /\ rateArgs = RateArgs(25, 10 * msPerHour, Some(<<0, 1000>>))
    /\ rateOut # None
    /\ rateOut[1].percent # None
    /\ rateOut[1].percent[1].unit = "day"
    /\ FormatFixed(rateOut[1].percent[1].value, 1) = 60

---------------------------------------------------------------------------
(* Claims about the two listeners, checked under SpecMain *)

BothLimits(properties) ==
    properties.EnergyEmpty # None /\ properties.EnergyFull # None

Rank(op) ==
    CASE op = "setBatteryState" -> 1
      [] op = "setBatteryLimits" -> 2
      [] op = "updateEnergy" -> 3
      [] OTHER -> 0

InCallOrder(calls) ==
    \A i, j \in 1..Len(calls) : i < j => Rank(calls[i]) < Rank(calls[j])

\* a step of processBatteryProperties, named by the key it looked up
BatchStep(key) ==
    batteryPc = "process" /\ step' = key

\* C11: within one notification batch the engine calls are made in the order
\* setBatteryState, setBatteryLimits, updateEnergy.  So when the batch carries
\* both limits and an Energy value, the engine holds the batch's limits when
\* updateEnergy returns and the energy percentage of the summary it wrote is
\* computed from them; and when the batch carries State 1 or 2 and an Energy
\* value admitted while awake, the window holds that reading alone afterwards.
C11_StateThenLimitsThenEnergy ==
    [][/\ InCallOrder(batchCalls')
       /\ (BatchStep("Energy") /\ props.Energy # None /\ BothLimits(props)) =>
             /\ energyEmpty' = props.EnergyEmpty
             /\ energyFull' = props.EnergyFull
             /\ \A i \in 1..Len(out') :
                   out'[i].energy # None =>
                      out'[i].energy[1].percent =
                         Some(PercentOfCapacity(out'[i].energy[1].wh,
                                                props.EnergyEmpty[1],
                                                props.EnergyFull[1]))
       /\ (BatchStep("Energy") /\ props.Energy # None /\ props.State # None
             /\ props.State[1] \in {1, 2} /\ enterSuspendTime = None) =>
             /\ Len(readings') = 1
             /\ readings'[1].energy = props.Energy[1]
             /\ firstReading' = Some(readings'[1])
      ]_vars

C11_Witness ==
    /\ step = "Energy"
    /\ batchCalls = <<"setBatteryState", "setBatteryLimits", "updateEnergy">>
    /\ limitCalls = Some(<<0, 5>>)
    /\ Len(readings) = 1
    /\ batteryCalled
    /\ Len(out) = 1
    /\ out[1].energy # None
    /\ out[1].energy[1].percent = Some(PercentOfCapacity(4, 0, 5))

Range(seq) ==
    {seq[i] : i \in 1..Len(seq)}

InBatch ==
    batteryPc = "process" /\ step' \in Range(batchOrder)

BatchEnds ==
    InBatch /\ batteryPc' = "watch"

\* C12: while a batch is processed, setBatteryLimits is called only if the
\* batch has both EnergyEmpty and EnergyFull, and then with the batch's two
\* values; when the batch is done the call has been made if and only if both
\* were present; a batch without one of them leaves the engine's limits as
\* they were at every step.
C12_LimitsOnlyWhenBothPresent ==
    [][InBatch =>
          /\ call'.op = "setBatteryLimits" =>
                /\ BothLimits(props)
                /\ limitCalls' = Some(<<props.EnergyEmpty[1], props.EnergyFull[1]>>)
          /\ ~BothLimits(props) =>
                /\ energyEmpty' = energyEmpty
                /\ energyFull' = energyFull
                /\ limitCalls' = limitCalls
          /\ BatchEnds =>
                ("setBatteryLimits" \in Range(batchCalls') <=> BothLimits(props))
      ]_vars

C12_Witness ==
    /\ batteryPc = "process"
    /\ step = "EnergyEmpty"
    /\ props.EnergyEmpty # None
    /\ props.EnergyFull = None
    /\ call.op = "none"
    /\ limitCalls = Some(<<0, 4>>)
    /\ energyEmpty = Some(0)
    /\ energyFull = Some(4)

KnownStateCodes ==
    {<<1, "Charging">>, <<2, "Discharging">>, <<4, "Idle">>, <<5, "Idle">>}

KnownState(properties) ==
    properties.State # None /\ properties.State[1] \in {c[1] : c \in KnownStateCodes}

\* C13: while a batch is processed, setBatteryState is called only for State
\* code 1 (Charging), 2 (Discharging), 4 or 5 (Idle), and the State lookup
\* makes exactly that call; for any other code, or without a State, no step
\* of the batch calls setBatteryState, the State lookup changes no engine
\* field, and no step clears First Reading, shortens the window or changes
\* the accumulator other than by the suspend delta of updateEnergy.
C13_StateCodeMapping ==
    [][InBatch =>
          /\ call'.op = "setBatteryState" =>
                /\ props.State # None
                /\ <<props.State[1], call'.arg>> \in KnownStateCodes
          /\ (step' = "State" /\ KnownState(props)) =>
                /\ call'.op = "setBatteryState"
                /\ <<props.State[1], call'.arg>> \in KnownStateCodes
          /\ ~KnownState(props) =>
                /\ call'.op # "setBatteryState"
                /\ step' = "State" => UNCHANGED <<engineVars, out, admitted>>
                /\ firstReading # None => firstReading' = firstReading
                /\ Len(readings') >= Len(readings)
                /\ Len(admitted') >= Len(admitted)
                /\ step' # "Energy" => totalSuspendEnergy' = totalSuspendEnergy
          /\ BatchEnds =>
                ("setBatteryState" \in Range(batchCalls') <=> KnownState(props))
      ]_vars

C13_Witness ==
    /\ batteryPc = "process"
    /\ step = "State"
    /\ props.State = Some(3)
    /\ call.op = "none"
    /\ firstReading # None
    /\ Len(readings) = 2
    /\ totalSuspendEnergy # 0

SleepStep ==
    step' = "sleep" /\ sleepEvent' # NoSleepEvent

\* C14: a step of the sleep listener calls setPowerState(Suspended) when the
\* notification is (stage "pre", operation "suspend"), setPowerState(Awake)
\* when it is ("post", "suspend"), and for every other stage or operation
\* calls nothing: no engine field changes and no line is written.
C14_OnlySuspendReachesEngine ==
    [][SleepStep =>
          /\ (sleepEvent'.operation = "suspend" /\ sleepEvent'.stage = "pre") =>
                /\ call' = Call("setPowerState", "Suspended")
                /\ enterSuspendTime' # None
          /\ (sleepEvent'.operation = "suspend" /\ sleepEvent'.stage = "post") =>
                /\ call' = Call("setPowerState", "Awake")
                /\ enterSuspendTime' = None
          /\ (sleepEvent'.operation # "suspend"
                 \/ sleepEvent'.stage \notin {"pre", "post"}) =>
                /\ call'.op = "none"
                /\ out' = <<>>
                /\ UNCHANGED <<engineVars, admitted, lastPowerCall, resumedSince,
                               limitCalls>>
      ]_vars

C14_Witness ==
    /\ step = "sleep"
    /\ sleepEvent = SleepEvent("pre", "hibernate")
    /\ call.op = "none"
    /\ lastPowerCall = "Awake"
    /\ enterSuspendTime = None
    /\ readings # <<>>

\* C15: from the receipt of a batch until its Energy lookup is done, every
\* step is the batch's next lookup, in order: none is a step of the sleep
\* listener, none calls setPowerState, and the suspend-entry timestamp stays
\* as it was; a sleep notification is handled only while the battery listener
\* waits, and leaves the batch position and the listener's locals alone.
C15_BatchRunsToCompletion ==
    [][/\ batteryPc = "process" =>
             /\ step' = batchOrder[batchPos]
             /\ call'.op # "setPowerState"
             /\ enterSuspendTime' = enterSuspendTime
             /\ lastPowerCall' = lastPowerCall
             /\ IF batchPos = Len(batchOrder)
                THEN batteryPc' = "watch"
                ELSE batteryPc' = "process" /\ batchPos' = batchPos + 1
       /\ step' = "sleep" =>
             /\ batteryPc # "process"
             /\ UNCHANGED <<batteryPc, batchPos, props, devices, batteryPath,
                            batchCalls>>
      ]_vars

C15_Witness ==
    /\ step = "sleep"
    /\ call = Call("setPowerState", "Suspended")
    /\ batteryPc = "watch"
    /\ batchCalls = <<"setBatteryState", "setBatteryLimits", "updateEnergy">>
    /\ enterSuspendTime # None

\* C16: the battery listener calls the engine, and is at or past the
\* snapshot, only if exactly one enumerated device has Type 2; it ends
\* (co_return) only if that number is not one, and then the engine has never
\* been given a battery state, limits or a reading.
C16_DiscoveryNeedsOneBattery ==
    /\ batteryCalled => batteries = 1
    /\ batteryPc \in {"snapshot", "process", "watch"} =>
          batteries = 1 /\ batteryPath # None
    /\ batteries # 1 =>
          /\ batteryPc \in {"start", "type", "done"}
          /\ call.op \notin {"setBatteryState", "setBatteryLimits", "updateEnergy"}
          /\ firstReading = None
          /\ readings = <<>>
          /\ admitted = <<>>
          /\ energyEmpty = None
          /\ energyFull = None
          /\ limitCalls = None
    /\ batteryPc = "done" => batteries # 1 /\ ~batteryCalled

C16_Witness ==
    /\ batteryPc = "done"
    /\ batteries = 2
    /\ step = "type"
    /\ batteryPath # None
    /\ out # <<>>
    /\ out[Len(out)].text = "Multiple batteries not supported yet"
    /\ lastPowerCall = "Suspended"

====
